---- MODULE Spec2Model ----
(***************************************************************************)
(* Receiver-side build-pipeline coordinator of trigtbh/cicd                *)
(* (src/receiver/server.py): the chunk-upload bookkeeping of receive_data, *)
(* combine_chunks, and the extract / build / export stages that follow a   *)
(* completed upload.                                                       *)
(*                                                                         *)
(* The Flask development server started by app.run handles each request on *)
(* its own thread and the handlers take no lock, so a handler is modelled  *)
(* as a sequence of steps (one per access to the shared dictionaries or to *)
(* the filesystem) that interleave with the steps of the other thread.     *)
(* SerialSpec is the same program with one request in flight at a time.    *)
(***************************************************************************)
EXTENDS Integers, Sequences, FiniteSets, TLC

\* ---------------------------------------------------------------- bounds

\* Largest total_chunks a client announces; indices are drawn from -1..MaxChunks.
MaxChunks == 2

\* Number of requests served in one behaviour (each draws one uuid4).
MaxUploads == 2

\* Largest size of an exported image, in the unit ChunkSize is counted in.
MaxBlobLen == 3

\* Deletions that fail (OSError) during one sweep of the working directory.
MaxDeleteFailures == 1

\* ---------------------------------------------------------------- inputs

\* Request-handling threads of the server.
Threads == {"t1", "t2"}

\* A filename is <<stem, extension>>; str.endswith(".tar.gz") looks at the extension.
Filenames == {<<"data", ".tar.gz">>, <<"data", ".zip">>}

Architectures == {"x64", "arm64"}

\* Shapes of the multipart form: well formed, no 'file' part, empty filename,
\* non-numeric chunk_index / total_chunks.
Forms == {"ok", "no_file", "empty_filename", "bad_int"}

IndexInputs == -1 .. MaxChunks

TotalInputs == 0 .. MaxChunks

\* The payload a client sends as chunk i of the archive it built for an
\* architecture: the i-th slice of that archive (sender split_file).
Payload(architecture, chunk_index) == <<architecture, chunk_index>>

\* A byte range never written (a hole left by writing past the end of a file).
Hole == <<"hole", -1>>

NoResponse == [thread |-> "", status |-> 0, msg |-> "none", detail |-> <<>>]

Response(status, msg, detail) == [status |-> status, msg |-> msg, detail |-> detail]

\* ----------------------------------------------------------------- state

VARIABLES
    chunk_tracker,   \* upload_key -> session record (server.py:11)
    image_chunks,    \* upload_id -> exported chunk set (server.py:14)
    temp_files,      \* <<upload_id, i>> -> payload: ./temp_{upload_id}_chunk_{i}
    received_files,  \* filename -> data: ./received_{filename}
    extract_dirs,    \* upload_id -> [dockerfile]: ./{upload_id}
    docker_images,   \* names of the images built
    image_files,     \* <<id8, n>> -> data: ./image_chunk_{id8}_{n}.tar
    next_uuid,       \* the uuid4 the next request draws
    pc,              \* thread -> position in its handler
    req,             \* thread -> the handler's local variables
    resp,            \* the response the last step sent, and the thread that sent it
    combine_calls,   \* upload_id -> number of calls of combine_chunks (history)
    completions,     \* upload_id -> number of del chunk_tracker[...] done (history)
    downloads_completed  \* upload ids whose chunk set a complete request removed (history)

vars == <<chunk_tracker, image_chunks, temp_files, received_files, extract_dirs,
          docker_images, image_files, next_uuid, pc, req, resp,
          combine_calls, completions, downloads_completed>>

\* req[t].redelivery is a history field, not a local of the handler: whether
\* the chunk's index was in the received set of a session with the same key
\* and total_chunks when the request looked its key up.
\* req[t].sweep_start is a history field too: what a sweep found when it began.

\* ------------------------------------------------------------- helpers

\* f"{original_filename}_{architecture}"
UploadKey(original_filename, architecture) == <<original_filename, architecture>>

EndsWithTarGz(filename) == filename[2] = ".tar.gz"

\* upload_id[:8]
UploadIdPrefix(upload_id) == upload_id

\* f"cicd-build-{architecture}-{upload_id[:8]}"
ImageName(architecture, upload_id) ==
    <<"cicd-build", architecture, UploadIdPrefix(upload_id)>>

\* dict / directory updates on functions whose domain is the set of present keys
Put(f, k, v) == [x \in DOMAIN f \cup {k} |-> IF x = k THEN v ELSE f[x]]

Remove(f, k) == [x \in DOMAIN f \ {k} |-> f[x]]

\* Mutant of WriteAt: the data is put in front of what the file holds.
WriteAt_Prepend(seq, off, data) == data \o seq

\* file.write(data) at offset off of a file holding seq: bytes past the end
\* extend the file, a gap before off reads as a hole.
WriteAt(seq, off, data) ==
    [n \in 1 .. (IF Len(seq) > off + Len(data) THEN Len(seq) ELSE off + Len(data)) |->
        IF n > off /\ n <= off + Len(data) THEN data[n - off]
        ELSE IF n <= Len(seq) THEN seq[n]
        ELSE Hole]

IdleLocals ==
    [form |-> "ok", chunked |-> FALSE, filename |-> <<"", "">>, architecture |-> "",
     chunk_index |-> 0, total_chunks |-> 0, upload_id |-> 0, i |-> 0, fd_live |-> FALSE,
     extract_success |-> FALSE, export_result |-> <<>>, redelivery |-> FALSE,
     chunk_info |-> <<>>, cleanup_count |-> 0, extracted_cleanup_count |-> 0,
     sweep_start |-> [stray_free |-> FALSE, no_images |-> FALSE, after_sweep |-> FALSE]]

\* An empty dict, an empty directory.
Empty == [x \in {} |-> 0]

Init ==
    /\ chunk_tracker = Empty
    /\ image_chunks = Empty
    /\ temp_files = Empty
    /\ received_files = Empty
    /\ extract_dirs = Empty
    /\ docker_images = {}
    /\ image_files = Empty
    /\ next_uuid = 1
    /\ pc = [t \in Threads |-> "idle"]
    /\ req = [t \in Threads |-> IdleLocals]
    /\ resp = NoResponse
    /\ combine_calls = Empty
    /\ completions = Empty
    /\ downloads_completed = {}

\* ------------------------------------------------- receive_data: chunks

shared == <<chunk_tracker, image_chunks, temp_files, received_files, extract_dirs,
            docker_images, image_files>>

history == <<combine_calls, completions, downloads_completed>>

Goto(t, p, locals) ==
    /\ pc' = [pc EXCEPT ![t] = p]
    /\ req' = [req EXCEPT ![t] = locals]
    /\ resp' = NoResponse

\* return jsonify(...), status: the handler ends and its locals are gone.
Return(t, r) ==
    /\ pc' = [pc EXCEPT ![t] = "idle"]
    /\ req' = [req EXCEPT ![t] = IdleLocals]
    /\ resp' = [thread |-> t, status |-> r.status, msg |-> r.msg, detail |-> r.detail]

\* except Exception as e: return "Server error", 500 (server.py:433-435)
ServerError == Response(500, "Server error", <<>>)

\* Mutant of InvalidChunkParams: chunk_index > total_chunks for >=.
InvalidChunkParams_OffByOne(chunk_index, total_chunks) ==
    chunk_index < 0 \/ total_chunks <= 0 \/ chunk_index > total_chunks

\* if chunk_index < 0 or total_chunks <= 0 or chunk_index >= total_chunks
InvalidChunkParams(chunk_index, total_chunks) ==
    chunk_index < 0 \/ total_chunks <= 0 \/ chunk_index >= total_chunks

\* server.py:199-237: the request is parsed and validated, a uuid4 is drawn,
\* and a chunk looks its upload_key up in chunk_tracker.
ReceiveData(t, form, chunked, filename, architecture, chunk_index, total_chunks) ==
    /\ pc[t] = "idle"
    /\ IF form = "no_file"
       THEN /\ Return(t, Response(400, "No file part in the request", <<>>))
            /\ UNCHANGED next_uuid
       ELSE IF form = "empty_filename"
       THEN /\ Return(t, Response(400, "No selected file", <<>>))
            /\ UNCHANGED next_uuid
       ELSE /\ next_uuid <= MaxUploads
            /\ next_uuid' = next_uuid + 1
            /\ LET locals == [IdleLocals EXCEPT
                                 !.form = form, !.chunked = chunked,
                                 !.filename = filename, !.architecture = architecture,
                                 !.chunk_index = chunk_index,
                                 !.total_chunks = total_chunks,
                                 !.upload_id = next_uuid,
                                 !.redelivery =
                                     /\ chunked
                                     /\ UploadKey(filename, architecture)
                                            \in DOMAIN chunk_tracker
                                     /\ LET session == chunk_tracker[
                                                UploadKey(filename, architecture)]
                                        IN  /\ session.total_chunks = total_chunks
                                            /\ chunk_index \in session.received_chunks]
               IN  IF chunked
                   THEN IF form = "bad_int"
                        THEN Return(t, Response(400, "Invalid chunk_index or total_chunks format", <<>>))
                        ELSE IF InvalidChunkParams(chunk_index, total_chunks)
                        THEN Return(t, Response(400, "Invalid chunk parameters", <<>>))
                        ELSE IF ~EndsWithTarGz(filename)
                        THEN Return(t, Response(400, "Invalid original file type", <<>>))
                        ELSE IF UploadKey(filename, architecture) \notin DOMAIN chunk_tracker
                        THEN Goto(t, "create", locals)
                        ELSE Goto(t, "join", locals)
                   ELSE IF ~EndsWithTarGz(filename)
                        THEN Return(t, Response(400, "Invalid file type", <<>>))
                        ELSE Goto(t, "save_whole", locals)
    /\ UNCHANGED <<shared, history>>

Key(t) == UploadKey(req[t].filename, req[t].architecture)

\* The fields every response of the pipeline carries: "id", "architecture",
\* "filename"; its message starts "All chunks received" for a chunked upload
\* and "File received" for a whole one.
Outcome(t) ==
    [id |-> req[t].upload_id, architecture |-> req[t].architecture,
     filename |-> req[t].filename,
     upload |-> IF req[t].chunked THEN "All chunks received" ELSE "File received"]

\* Mutant of TrackCreate: the session is registered under the uuid4 drawn by
\* the request before this one.
TrackCreate_StaleId(t) ==
    /\ pc[t] = "create"
    /\ chunk_tracker' = Put(chunk_tracker, Key(t),
           [received_chunks |-> {},
            total_chunks |-> req[t].total_chunks,
            original_filename |-> req[t].filename,
            architecture |-> req[t].architecture,
            upload_id |-> IF req[t].upload_id > 1 THEN req[t].upload_id - 1
                          ELSE req[t].upload_id])
    /\ Goto(t, "save", [req[t] EXCEPT !.upload_id =
                            IF @ > 1 THEN @ - 1 ELSE @])
    /\ UNCHANGED <<image_chunks, temp_files, received_files, extract_dirs,
                   docker_images, image_files, next_uuid, history>>

\* Mutant of TrackCreate: the new session replaces the whole registry.
TrackCreate_ResetRegistry(t) ==
    /\ pc[t] = "create"
    /\ chunk_tracker' = Put(Empty, Key(t),
           [received_chunks |-> {},
            total_chunks |-> req[t].total_chunks,
            original_filename |-> req[t].filename,
            architecture |-> req[t].architecture,
            upload_id |-> req[t].upload_id])
    /\ Goto(t, "save", req[t])
    /\ UNCHANGED <<image_chunks, temp_files, received_files, extract_dirs,
                   docker_images, image_files, next_uuid, history>>

\* server.py:238-244: chunk_tracker[upload_key] = {...}
TrackCreate(t) ==
    /\ pc[t] = "create"
    /\ chunk_tracker' = Put(chunk_tracker, Key(t),
           [received_chunks |-> {},
            total_chunks |-> req[t].total_chunks,
            original_filename |-> req[t].filename,
            architecture |-> req[t].architecture,
            upload_id |-> req[t].upload_id])
    /\ Goto(t, "save", req[t])
    /\ UNCHANGED <<image_chunks, temp_files, received_files, extract_dirs,
                   docker_images, image_files, next_uuid, history>>

\* Mutant of TrackJoin: an index the session already holds is refused.
TrackJoin_RejectDuplicate(t) ==
    /\ pc[t] = "join"
    /\ IF Key(t) \notin DOMAIN chunk_tracker
       THEN Return(t, ServerError)
       ELSE IF chunk_tracker[Key(t)].total_chunks # req[t].total_chunks
       THEN Return(t, Response(400, "Inconsistent total_chunks for this upload", <<>>))
       ELSE IF req[t].chunk_index \in chunk_tracker[Key(t)].received_chunks
       THEN Return(t, Response(400, "Chunk already received", <<>>))
       ELSE Goto(t, "save", [req[t] EXCEPT !.upload_id = chunk_tracker[Key(t)].upload_id])
    /\ UNCHANGED <<shared, next_uuid, history>>

\* Mutant of TrackJoin: the request keeps the uuid4 it drew.
TrackJoin_KeepOwnId(t) ==
    /\ pc[t] = "join"
    /\ IF Key(t) \notin DOMAIN chunk_tracker
       THEN Return(t, ServerError)
       ELSE IF chunk_tracker[Key(t)].total_chunks # req[t].total_chunks
       THEN Return(t, Response(400, "Inconsistent total_chunks for this upload", <<>>))
       ELSE Goto(t, "save", req[t])
    /\ UNCHANGED <<shared, next_uuid, history>>

\* Mutant of TrackJoin: a different total_chunks replaces the session's.
TrackJoin_AdoptTotal(t) ==
    /\ pc[t] = "join"
    /\ IF Key(t) \notin DOMAIN chunk_tracker
       THEN /\ Return(t, ServerError)
            /\ UNCHANGED chunk_tracker
       ELSE /\ chunk_tracker' = [chunk_tracker EXCEPT ![Key(t)].total_chunks =
                                     req[t].total_chunks]
            /\ Goto(t, "save",
                    [req[t] EXCEPT !.upload_id = chunk_tracker[Key(t)].upload_id])
    /\ UNCHANGED <<image_chunks, temp_files, received_files, extract_dirs,
                   docker_images, image_files, next_uuid, history>>

\* server.py:246-249: the session's upload_id is adopted and its total_chunks
\* compared with the request's.
TrackJoin(t) ==
    /\ pc[t] = "join"
    /\ IF Key(t) \notin DOMAIN chunk_tracker
       THEN Return(t, ServerError)
       ELSE IF chunk_tracker[Key(t)].total_chunks # req[t].total_chunks
       THEN Return(t, Response(400, "Inconsistent total_chunks for this upload", <<>>))
       ELSE Goto(t, "save", [req[t] EXCEPT !.upload_id = chunk_tracker[Key(t)].upload_id])
    /\ UNCHANGED <<shared, next_uuid, history>>

\* Mutant of SaveChunk: the index is marked before its file is written.
SaveChunk_Deferred(t) ==
    /\ pc[t] = "save"
    /\ Goto(t, "mark", req[t])
    /\ UNCHANGED <<shared, next_uuid, history>>

\* server.py:252-256: file.save(chunk_path); the write can fail.
SaveChunk(t) ==
    /\ pc[t] = "save"
    /\ \E saved \in BOOLEAN :
         IF saved
         THEN /\ temp_files' = Put(temp_files, <<req[t].upload_id, req[t].chunk_index>>,
                                   Payload(req[t].architecture, req[t].chunk_index))
              /\ Goto(t, "mark", req[t])
         ELSE /\ temp_files' = temp_files
              /\ Return(t, Response(500, "Failed to save chunk", <<>>))
    /\ UNCHANGED <<chunk_tracker, image_chunks, received_files, extract_dirs,
                   docker_images, image_files, next_uuid, history>>

\* server.py:259: chunk_tracker[upload_key]['received_chunks'].add(chunk_index)
MarkReceived(t) ==
    /\ pc[t] = "mark"
    /\ IF Key(t) \notin DOMAIN chunk_tracker
       THEN /\ Return(t, ServerError)
            /\ UNCHANGED chunk_tracker
       ELSE /\ chunk_tracker' = [chunk_tracker EXCEPT ![Key(t)].received_chunks =
                                     @ \cup {req[t].chunk_index}]
            /\ Goto(t, "check", req[t])
    /\ UNCHANGED <<image_chunks, temp_files, received_files, extract_dirs,
                   docker_images, image_files, next_uuid, history>>

Bump(f, k) == Put(f, k, IF k \in DOMAIN f THEN f[k] + 1 ELSE 1)

Count(f, k) == IF k \in DOMAIN f THEN f[k] ELSE 0

\* Mutant of CheckComplete: the received set is compared with total_chunks + 1.
CheckComplete_OffByOne(t) ==
    /\ pc[t] = "check"
    /\ IF Key(t) \notin DOMAIN chunk_tracker
       THEN /\ Return(t, ServerError)
            /\ UNCHANGED combine_calls
       ELSE IF Cardinality(chunk_tracker[Key(t)].received_chunks) = req[t].total_chunks + 1
       THEN /\ Goto(t, "verify", req[t])
            /\ combine_calls' = Bump(combine_calls, req[t].upload_id)
       ELSE /\ Return(t, Response(200, "Chunk received successfully",
                   <<Cardinality(chunk_tracker[Key(t)].received_chunks),
                     req[t].total_chunks>>))
            /\ UNCHANGED combine_calls
    /\ UNCHANGED <<shared, next_uuid, completions, downloads_completed>>

\* server.py:262-267 and 343-348: the completion check; combine_chunks is
\* called when the received set has total_chunks members.
CheckComplete(t) ==
    /\ pc[t] = "check"
    /\ IF Key(t) \notin DOMAIN chunk_tracker
       THEN /\ Return(t, ServerError)
            /\ UNCHANGED combine_calls
       ELSE IF Cardinality(chunk_tracker[Key(t)].received_chunks) = req[t].total_chunks
       THEN /\ Goto(t, "verify", req[t])
            /\ combine_calls' = Bump(combine_calls, req[t].upload_id)
       ELSE /\ Return(t, Response(200, "Chunk received successfully",
                   <<Cardinality(chunk_tracker[Key(t)].received_chunks),
                     req[t].total_chunks>>))
            /\ UNCHANGED combine_calls
    /\ UNCHANGED <<shared, next_uuid, completions, downloads_completed>>

\* ---------------------------------------------------------- combine_chunks

\* Mutant of MissingChunks: the search stops at the first absent file.
MissingChunks_FirstOnly(total_chunks, upload_id) ==
    LET absent == {i \in 0 .. total_chunks - 1 : <<upload_id, i>> \notin DOMAIN temp_files}
    IN  {i \in absent : \A j \in absent : i <= j}

\* The indices of range(total_chunks) whose chunk file is absent.
MissingChunks(total_chunks, upload_id) ==
    {i \in 0 .. total_chunks - 1 : <<upload_id, i>> \notin DOMAIN temp_files}

\* A set of integers as the list a range() loop appends them to.
RECURSIVE Ascending(_)
Ascending(S) ==
    IF S = {} THEN <<>>
    ELSE LET m == CHOOSE x \in S : \A y \in S : x <= y
         IN  <<m>> \o Ascending(S \ {m})

\* server.py:153-161: every chunk file is looked for before anything is written.
CombineVerify(t) ==
    /\ pc[t] = "verify"
    /\ LET missing_chunks == Ascending(MissingChunks(req[t].total_chunks, req[t].upload_id))
       IN  IF missing_chunks # <<>>
           THEN Return(t, Response(500, "Failed to combine chunks: Missing chunks",
                                   missing_chunks))
           ELSE Goto(t, "open", req[t])
    /\ UNCHANGED <<shared, next_uuid, history>>

\* server.py:164: open(combined_file_path, 'wb') creates or truncates the file.
CombineOpen(t) ==
    /\ pc[t] = "open"
    /\ received_files' = Put(received_files, req[t].filename, <<>>)
    /\ Goto(t, "combine", [req[t] EXCEPT !.i = 0, !.fd_live = TRUE])
    /\ UNCHANGED <<chunk_tracker, image_chunks, temp_files, extract_dirs,
                   docker_images, image_files, next_uuid, history>>

\* Mutant of CombineChunk: a failed read removes the session from the registry.
CombineChunk_DropSessionOnFailure(t) ==
    /\ pc[t] = "combine"
    /\ LET chunk == <<req[t].upload_id, req[t].i>>
       IN  \E read \in BOOLEAN :
             IF chunk \notin DOMAIN temp_files \/ ~read
             THEN /\ Return(t, Response(500, "Failed to combine chunks: Error processing chunk",
                                        <<req[t].i>>))
                  /\ chunk_tracker' = Remove(chunk_tracker, Key(t))
                  /\ UNCHANGED <<temp_files, received_files>>
             ELSE /\ received_files' =
                        IF req[t].fd_live /\ req[t].filename \in DOMAIN received_files
                        THEN [received_files EXCEPT ![req[t].filename] =
                                 WriteAt(@, req[t].i, <<temp_files[chunk]>>)]
                        ELSE received_files
                  /\ temp_files' = Remove(temp_files, chunk)
                  /\ chunk_tracker' = chunk_tracker
                  /\ IF req[t].i + 1 = req[t].total_chunks
                     THEN Goto(t, "extract", req[t])
                     ELSE Goto(t, "combine", [req[t] EXCEPT !.i = @ + 1])
    /\ UNCHANGED <<image_chunks, extract_dirs,
                   docker_images, image_files, next_uuid, history>>

\* server.py:165-176: one turn of the loop: chunk i is read, written at this
\* handle's offset and removed; the read can fail.  A handle whose file was
\* unlinked writes to a file no path names any more.
CombineChunk(t) ==
    /\ pc[t] = "combine"
    /\ LET chunk == <<req[t].upload_id, req[t].i>>
       IN  \E read \in BOOLEAN :
             IF chunk \notin DOMAIN temp_files \/ ~read
             THEN /\ Return(t, Response(500, "Failed to combine chunks: Error processing chunk",
                                        <<req[t].i>>))
                  /\ UNCHANGED <<temp_files, received_files>>
             ELSE /\ received_files' =
                        IF req[t].fd_live /\ req[t].filename \in DOMAIN received_files
                        THEN [received_files EXCEPT ![req[t].filename] =
                                 WriteAt(@, req[t].i, <<temp_files[chunk]>>)]
                        ELSE received_files
                  /\ temp_files' = Remove(temp_files, chunk)
                  /\ IF req[t].i + 1 = req[t].total_chunks
                     THEN Goto(t, "extract", req[t])
                     ELSE Goto(t, "combine", [req[t] EXCEPT !.i = @ + 1])
    /\ UNCHANGED <<chunk_tracker, image_chunks, extract_dirs,
                   docker_images, image_files, next_uuid, history>>


\* --------------------------------------------- receive_data: whole archive

\* The archive a client sends in one piece: its only slice.
WholeArchive(architecture) == <<Payload(architecture, 0)>>

\* server.py:357-360: file.save(tar_file_path); the write can fail
\* (except Exception, server.py:430-431).
SaveWhole(t) ==
    /\ pc[t] = "save_whole"
    /\ \E saved \in BOOLEAN :
         IF saved
         THEN /\ received_files' = Put(received_files, req[t].filename,
                                       WholeArchive(req[t].architecture))
              /\ Goto(t, "extract", req[t])
         ELSE /\ received_files' = received_files
              /\ Return(t, Response(500, "Failed to save file", <<>>))
    /\ UNCHANGED <<chunk_tracker, image_chunks, temp_files, extract_dirs,
                   docker_images, image_files, next_uuid, history>>

\* ------------------------------------------------------- extract_tar_file

\* os.remove(path) of an archive: the handles other threads hold on it go on
\* writing to the unlinked file.
Unlink(t, filename) ==
    [q \in Threads |->
        IF q # t /\ req[q].filename = filename
        THEN [req[q] EXCEPT !.fd_live = FALSE]
        ELSE req[q]]

\* Mutant of ExtractTarFile: the archive is removed whatever tar answered.
ExtractTarFile_AlwaysRemove(t) ==
    /\ pc[t] = "extract"
    /\ LET id == req[t].upload_id
           had == id \in DOMAIN extract_dirs /\ extract_dirs[id].dockerfile
       IN  \E tar_ok \in BOOLEAN, dockerfile \in BOOLEAN :
             /\ tar_ok => req[t].filename \in DOMAIN received_files
             /\ ~tar_ok => ~dockerfile
             /\ extract_dirs' = Put(extract_dirs, id, [dockerfile |-> had \/ dockerfile])
             /\ received_files' = Remove(received_files, req[t].filename)
             /\ pc' = [pc EXCEPT ![t] =
                          IF req[t].chunked THEN "del"
                          ELSE IF tar_ok THEN "build" ELSE "idle"]
             /\ LET others == IF tar_ok THEN Unlink(t, req[t].filename) ELSE req
                IN  req' = [others EXCEPT ![t] =
                               IF ~req[t].chunked /\ ~tar_ok THEN IdleLocals
                               ELSE [req[t] EXCEPT !.extract_success = tar_ok,
                                                   !.fd_live = FALSE]]
             /\ resp' = IF ~req[t].chunked /\ ~tar_ok
                        THEN [thread |-> t, status |-> 200, msg |-> "extraction failed",
                              detail |-> [outcome |-> Outcome(t)]]
                        ELSE NoResponse
    /\ UNCHANGED <<chunk_tracker, image_chunks, temp_files,
                   docker_images, image_files, next_uuid, history>>

\* server.py:16-43: the directory ./{extract_id} is made, tar unpacks the
\* archive into it (tar's verdict and the presence of a Dockerfile in the
\* archive are the tool's), and the archive is removed when tar succeeded.
\* Chunked uploads go on to del chunk_tracker[...], whole uploads to the build.
ExtractTarFile(t) ==
    /\ pc[t] = "extract"
    /\ LET id == req[t].upload_id
           had == id \in DOMAIN extract_dirs /\ extract_dirs[id].dockerfile
       IN  \E tar_ok \in BOOLEAN, dockerfile \in BOOLEAN :
             /\ tar_ok => req[t].filename \in DOMAIN received_files
             /\ ~tar_ok => ~dockerfile
             /\ extract_dirs' = Put(extract_dirs, id, [dockerfile |-> had \/ dockerfile])
             /\ received_files' = IF tar_ok THEN Remove(received_files, req[t].filename)
                                  ELSE received_files
             /\ pc' = [pc EXCEPT ![t] =
                          IF req[t].chunked THEN "del"
                          ELSE IF tar_ok THEN "build" ELSE "idle"]
             /\ LET others == IF tar_ok THEN Unlink(t, req[t].filename) ELSE req
                IN  req' = [others EXCEPT ![t] =
                               IF ~req[t].chunked /\ ~tar_ok THEN IdleLocals
                               ELSE [req[t] EXCEPT !.extract_success = tar_ok,
                                                   !.fd_live = FALSE]]
             /\ resp' = IF ~req[t].chunked /\ ~tar_ok
                        THEN [thread |-> t, status |-> 200, msg |-> "extraction failed",
                              detail |-> [outcome |-> Outcome(t)]]
                        ELSE NoResponse
    /\ UNCHANGED <<chunk_tracker, image_chunks, temp_files,
                   docker_images, image_files, next_uuid, history>>

\* Mutant of DelTracker: the entry is deleted only after a successful extraction.
DelTracker_OnlyOnSuccess(t) ==
    /\ pc[t] = "del"
    /\ IF Key(t) \notin DOMAIN chunk_tracker
       THEN /\ Return(t, ServerError)
            /\ UNCHANGED <<chunk_tracker, completions>>
       ELSE IF req[t].extract_success
       THEN /\ chunk_tracker' = Remove(chunk_tracker, Key(t))
            /\ completions' = Bump(completions, chunk_tracker[Key(t)].upload_id)
            /\ Goto(t, "build", req[t])
       ELSE /\ Return(t, Response(200, "extraction failed", [outcome |-> Outcome(t)]))
            /\ UNCHANGED <<chunk_tracker, completions>>
    /\ UNCHANGED <<image_chunks, temp_files, received_files, extract_dirs,
                   docker_images, image_files, next_uuid, combine_calls,
                   downloads_completed>>

\* Mutant of DelTracker: the build is started whatever the extraction gave.
DelTracker_BuildAnyway(t) ==
    /\ pc[t] = "del"
    /\ IF Key(t) \notin DOMAIN chunk_tracker
       THEN /\ Return(t, ServerError)
            /\ UNCHANGED <<chunk_tracker, completions>>
       ELSE /\ chunk_tracker' = Remove(chunk_tracker, Key(t))
            /\ completions' = Bump(completions, chunk_tracker[Key(t)].upload_id)
            /\ Goto(t, "build", req[t])
    /\ UNCHANGED <<image_chunks, temp_files, received_files, extract_dirs,
                   docker_images, image_files, next_uuid, combine_calls,
                   downloads_completed>>

\* server.py:275 and 332-340: del chunk_tracker[upload_key], whatever the
\* extraction gave; a failed extraction is reported after it.
DelTracker(t) ==
    /\ pc[t] = "del"
    /\ IF Key(t) \notin DOMAIN chunk_tracker
       THEN /\ Return(t, ServerError)
            /\ UNCHANGED <<chunk_tracker, completions>>
       ELSE /\ chunk_tracker' = Remove(chunk_tracker, Key(t))
            /\ completions' = Bump(completions, chunk_tracker[Key(t)].upload_id)
            /\ IF req[t].extract_success
               THEN Goto(t, "build", req[t])
               ELSE Return(t, Response(200, "extraction failed", [outcome |-> Outcome(t)]))
    /\ UNCHANGED <<image_chunks, temp_files, received_files, extract_dirs,
                   docker_images, image_files, next_uuid, combine_calls,
                   downloads_completed>>

\* ------------------------------------------------------ build_docker_image

\* Mutant of BuildDockerImage: a failed build removes the workspace.
BuildDockerImage_RollbackOnFailure(t) ==
    /\ pc[t] = "build"
    /\ LET id == req[t].upload_id
           image_name == ImageName(req[t].architecture, id)
       IN  IF ~(id \in DOMAIN extract_dirs /\ extract_dirs[id].dockerfile)
           THEN /\ Return(t, Response(200, "Docker build failed",
                          [outcome |-> Outcome(t), extracted_to |-> id,
                           docker_build_error |-> "No Dockerfile found"]))
                /\ UNCHANGED docker_images
           ELSE \E built \in BOOLEAN :
                  IF built
                  THEN /\ docker_images' = docker_images \cup {image_name}
                       /\ Goto(t, "export", req[t])
                  ELSE /\ Return(t, Response(200, "Docker build failed",
                                 [outcome |-> Outcome(t), extracted_to |-> id,
                                  docker_build_error |-> "Docker build failed"]))
                       /\ UNCHANGED docker_images
    /\ extract_dirs' = IF pc'[t] = "idle" THEN Remove(extract_dirs, req[t].upload_id)
                       ELSE extract_dirs
    /\ UNCHANGED <<chunk_tracker, image_chunks, temp_files, received_files,
                   image_files, next_uuid, history>>

\* server.py:45-93: without a Dockerfile nothing is built; otherwise docker
\* buildx builds and tags the image, or fails.
BuildDockerImage(t) ==
    /\ pc[t] = "build"
    /\ LET id == req[t].upload_id
           image_name == ImageName(req[t].architecture, id)
       IN  IF ~(id \in DOMAIN extract_dirs /\ extract_dirs[id].dockerfile)
           THEN /\ Return(t, Response(200, "Docker build failed",
                          [outcome |-> Outcome(t), extracted_to |-> id,
                           docker_build_error |-> "No Dockerfile found"]))
                /\ UNCHANGED docker_images
           ELSE \E built \in BOOLEAN :
                  IF built
                  THEN /\ docker_images' = docker_images \cup {image_name}
                       /\ Goto(t, "export", req[t])
                  ELSE /\ Return(t, Response(200, "Docker build failed",
                                 [outcome |-> Outcome(t), extracted_to |-> id,
                                  docker_build_error |-> "Docker build failed"]))
                       /\ UNCHANGED docker_images
    /\ UNCHANGED <<chunk_tracker, image_chunks, temp_files, received_files, extract_dirs,
                   image_files, next_uuid, history>>


\* ------------------------------------------- export_and_split_docker_image

\* chunk_size_bytes (chunk_size_mb = 5), counted in units of 2.5 MiB.
ChunkSize == 2

\* The bytes docker save writes for an image of the given size.
ExportBlob(size) == [n \in 1 .. size |-> n]

\* f.read(chunk_size_bytes) until it returns nothing: the number of reads
\* that return data.
NumImageChunks(size) == (size + ChunkSize - 1) \div ChunkSize

\* Mutant of ImageChunk: the reads are numbered from the end of the blob.
ImageChunk_FromEnd(blob, chunk_num) ==
    LET last == (Len(blob) + ChunkSize - 1) \div ChunkSize - 1
        n == last - chunk_num
    IN  SubSeq(blob, n * ChunkSize + 1,
               IF (n + 1) * ChunkSize < Len(blob) THEN (n + 1) * ChunkSize ELSE Len(blob))

\* The data of the chunk_num-th read.
ImageChunk(blob, chunk_num) ==
    SubSeq(blob, chunk_num * ChunkSize + 1,
           IF (chunk_num + 1) * ChunkSize < Len(blob)
           THEN (chunk_num + 1) * ChunkSize ELSE Len(blob))

\* f"image_chunk_{upload_id[:8]}_{chunk_num:03d}.tar"
ImageChunkName(upload_id, chunk_num) == <<UploadIdPrefix(upload_id), chunk_num>>

\* Mutant of OriginalSize: the chunk size times the number of chunks.
OriginalSize_SizeTimesCount(files, chunk_files) == ChunkSize * Len(chunk_files)

\* server.py:141: getsize(chunk_files[0]) * (len(chunk_files) - 1)
\*                + getsize(chunk_files[-1]), or 0 without chunks.
OriginalSize(files, chunk_files) ==
    IF chunk_files = <<>> THEN 0
    ELSE Len(files[chunk_files[1]]) * (Len(chunk_files) - 1)
         + Len(files[chunk_files[Len(chunk_files)]])

\* Mutant of ExportAndSplit: a failed docker save is taken for an empty export.
ExportAndSplit_IgnoreFailure(t) ==
    /\ pc[t] = "export"
    /\ LET id == req[t].upload_id
           image_name == ImageName(req[t].architecture, id)
       IN  \E size \in 0 .. MaxBlobLen :
             IF size = 0 \/ image_name \notin docker_images
             THEN /\ size = 0
                  /\ Goto(t, "register",
                          [req[t] EXCEPT !.export_result =
                              [chunk_files |-> <<>>, total_chunks |-> 0,
                               original_size |-> 0]])
                  /\ UNCHANGED image_files
             ELSE LET blob == ExportBlob(size)
                      chunk_files == [n \in 1 .. NumImageChunks(size) |->
                                         ImageChunkName(id, n - 1)]
                      written == [f \in DOMAIN image_files
                                        \cup {chunk_files[n] : n \in DOMAIN chunk_files} |->
                                    IF \E n \in DOMAIN chunk_files : chunk_files[n] = f
                                    THEN ImageChunk(blob,
                                           (CHOOSE n \in DOMAIN chunk_files :
                                                chunk_files[n] = f) - 1)
                                    ELSE image_files[f]]
                  IN  /\ image_files' = written
                      /\ Goto(t, "register",
                              [req[t] EXCEPT !.export_result =
                                  [chunk_files |-> chunk_files,
                                   total_chunks |-> Len(chunk_files),
                                   original_size |-> OriginalSize(written, chunk_files)]])
    /\ UNCHANGED <<chunk_tracker, image_chunks, temp_files, received_files, extract_dirs,
                   docker_images, next_uuid, history>>

\* Mutant of ExportAndSplit: the chunk files of earlier exports are removed
\* before the new ones are written.
ExportAndSplit_FreshDirectory(t) ==
    /\ pc[t] = "export"
    /\ LET id == req[t].upload_id
           image_name == ImageName(req[t].architecture, id)
       IN  \E size \in 0 .. MaxBlobLen :
             IF size = 0 \/ image_name \notin docker_images
             THEN /\ size = 0
                  /\ Return(t, Response(200, "export failed",
                            [outcome |-> Outcome(t), extracted_to |-> id,
                             docker_image |-> image_name]))
                  /\ UNCHANGED image_files
             ELSE LET blob == ExportBlob(size)
                      chunk_files == [n \in 1 .. NumImageChunks(size) |->
                                         ImageChunkName(id, n - 1)]
                      written == [f \in {chunk_files[n] : n \in DOMAIN chunk_files} |->
                                    ImageChunk(blob,
                                       (CHOOSE n \in DOMAIN chunk_files :
                                            chunk_files[n] = f) - 1)]
                  IN  /\ image_files' = written
                      /\ Goto(t, "register",
                              [req[t] EXCEPT !.export_result =
                                  [chunk_files |-> chunk_files,
                                   total_chunks |-> Len(chunk_files),
                                   original_size |-> OriginalSize(written, chunk_files)]])
    /\ UNCHANGED <<chunk_tracker, image_chunks, temp_files, received_files, extract_dirs,
                   docker_images, next_uuid, history>>

\* server.py:95-146: docker save writes the image to one file (or fails), the
\* file is cut into chunk files and removed.
ExportAndSplit(t) ==
    /\ pc[t] = "export"
    /\ LET id == req[t].upload_id
           image_name == ImageName(req[t].architecture, id)
       IN  \E size \in 0 .. MaxBlobLen :
             IF size = 0 \/ image_name \notin docker_images
             THEN /\ size = 0
                  /\ Return(t, Response(200, "export failed",
                            [outcome |-> Outcome(t), extracted_to |-> id,
                             docker_image |-> image_name]))
                  /\ UNCHANGED image_files
             ELSE LET blob == ExportBlob(size)
                      chunk_files == [n \in 1 .. NumImageChunks(size) |->
                                         ImageChunkName(id, n - 1)]
                      written == [f \in DOMAIN image_files
                                        \cup {chunk_files[n] : n \in DOMAIN chunk_files} |->
                                    IF \E n \in DOMAIN chunk_files : chunk_files[n] = f
                                    THEN ImageChunk(blob,
                                           (CHOOSE n \in DOMAIN chunk_files :
                                                chunk_files[n] = f) - 1)
                                    ELSE image_files[f]]
                  IN  /\ image_files' = written
                      /\ Goto(t, "register",
                              [req[t] EXCEPT !.export_result =
                                  [chunk_files |-> chunk_files,
                                   total_chunks |-> Len(chunk_files),
                                   original_size |-> OriginalSize(written, chunk_files)]])
    /\ UNCHANGED <<chunk_tracker, image_chunks, temp_files, received_files, extract_dirs,
                   docker_images, next_uuid, history>>

\* server.py:289-309 and 377-397: image_chunks[upload_id] = {...}
RegisterImageChunks(t) ==
    /\ pc[t] = "register"
    /\ LET id == req[t].upload_id
           image_name == ImageName(req[t].architecture, id)
       IN  /\ image_chunks' = Put(image_chunks, id,
                  [image_name |-> image_name,
                   architecture |-> req[t].architecture,
                   chunk_files |-> req[t].export_result.chunk_files,
                   total_chunks |-> req[t].export_result.total_chunks,
                   original_size |-> req[t].export_result.original_size])
           /\ Return(t, Response(200, "Docker image built and exported successfully",
                     [outcome |-> Outcome(t), extracted_to |-> id,
                      docker_image |-> image_name,
                      image_chunks_available |-> req[t].export_result.total_chunks,
                      image_size |-> req[t].export_result.original_size]))
    /\ UNCHANGED <<chunk_tracker, temp_files, received_files, extract_dirs,
                   docker_images, image_files, next_uuid, history>>

\* ------------------------------------------------------- download manager

\* The <upload_id> a client can put in a URL: an id the server has handed
\* out, or one it never drew (0).
UploadIds == 0 .. MaxUploads

\* The <int:chunk_index> of a URL, and -1 for the handler's own lower bound.
ChunkIndexInputs == -1 .. (NumImageChunks(MaxBlobLen) + 1)

\* An exception no handler catches: Flask answers 500.
InternalServerError == Response(500, "Internal Server Error", <<>>)

NotFound == Response(404, "Image chunks not found for this upload ID", <<>>)

\* Mutant of ImageLookup: the handler goes on without looking the id up.
ImageLookup_Unchecked(t, upload_id, chunk_index, p) ==
    /\ pc[t] = "idle"
    /\ upload_id < next_uuid
    /\ Goto(t, p, [IdleLocals EXCEPT !.upload_id = upload_id,
                                     !.chunk_index = chunk_index])
    /\ UNCHANGED <<shared, next_uuid, history>>

\* server.py:440-441, 459-460, 483-484: if upload_id not in image_chunks
ImageLookup(t, upload_id, chunk_index, p) ==
    /\ pc[t] = "idle"
    /\ upload_id < next_uuid
    /\ IF upload_id \notin DOMAIN image_chunks
       THEN Return(t, NotFound)
       ELSE Goto(t, p, [IdleLocals EXCEPT !.upload_id = upload_id,
                                          !.chunk_index = chunk_index])
    /\ UNCHANGED <<shared, next_uuid, history>>

\* server.py:438-453: GET /image/<upload_id>/info
GetImageInfo(t) ==
    \/ \E upload_id \in UploadIds : ImageLookup(t, upload_id, 0, "info")
    \/ /\ pc[t] = "info"
       /\ IF req[t].upload_id \notin DOMAIN image_chunks
          THEN Return(t, InternalServerError)
          ELSE Return(t, Response(200, "info",
                   [upload_id |-> req[t].upload_id,
                    chunk_info |-> image_chunks[req[t].upload_id]]))
       /\ UNCHANGED <<shared, next_uuid, history>>

\* server.py:464: if chunk_index < 0 or chunk_index >= chunk_info["total_chunks"]
InvalidChunkIndex(chunk_index, total_chunks) ==
    chunk_index < 0 \/ chunk_index >= total_chunks

\* server.py:456-477: GET /image/<upload_id>/chunk/<int:chunk_index>; the
\* file can vanish between os.path.exists and send_file, and send_file can fail.
DownloadImageChunk(t) ==
    \/ \E upload_id \in UploadIds, chunk_index \in ChunkIndexInputs :
         ImageLookup(t, upload_id, chunk_index, "chunk")
    \/ /\ pc[t] = "chunk"
       /\ IF req[t].upload_id \notin DOMAIN image_chunks
          THEN Return(t, InternalServerError)
          ELSE LET chunk_info == image_chunks[req[t].upload_id]
                   chunk_index == req[t].chunk_index
               IN  IF InvalidChunkIndex(chunk_index, chunk_info.total_chunks)
                   THEN Return(t, Response(400, "Invalid chunk index",
                                           <<0, chunk_info.total_chunks - 1>>))
                   ELSE LET chunk_filename == chunk_info.chunk_files[chunk_index + 1]
                        IN  IF chunk_filename \notin DOMAIN image_files
                            THEN Return(t, Response(404, "Chunk file not found",
                                                    chunk_filename))
                            ELSE \E sent \in BOOLEAN :
                                   IF sent
                                   THEN Return(t, Response(200, "chunk",
                                          [upload_id |-> req[t].upload_id,
                                           chunk_index |-> chunk_index,
                                           download_name |-> chunk_filename,
                                           data |-> image_files[chunk_filename]]))
                                   ELSE Return(t, Response(500, "Failed to send chunk", <<>>))
       /\ UNCHANGED <<shared, next_uuid, history>>

\* server.py:480-486: the set is looked up and its record fetched.
CompleteLookup(t) ==
    \/ \E upload_id \in UploadIds : ImageLookup(t, upload_id, 0, "complete")
    \/ /\ pc[t] = "complete"
       /\ IF req[t].upload_id \notin DOMAIN image_chunks
          THEN Return(t, InternalServerError)
          ELSE Goto(t, "cmp_remove",
                    [req[t] EXCEPT !.chunk_info = image_chunks[req[t].upload_id],
                                   !.i = 0, !.cleanup_count = 0])
       /\ UNCHANGED <<shared, next_uuid, history>>

\* Mutant of CompleteRemove: a file is counted when its removal is attempted.
CompleteRemove_CountAttempts(t) ==
    /\ pc[t] = "cmp_remove"
    /\ req[t].i < Len(req[t].chunk_info.chunk_files)
    /\ LET chunk_filename == req[t].chunk_info.chunk_files[req[t].i + 1]
       IN  \E removed \in BOOLEAN :
             /\ removed => chunk_filename \in DOMAIN image_files
             /\ image_files' = IF removed THEN Remove(image_files, chunk_filename)
                               ELSE image_files
             /\ Goto(t, "cmp_remove",
                     [req[t] EXCEPT !.i = @ + 1, !.cleanup_count = @ + 1])
    /\ UNCHANGED <<chunk_tracker, image_chunks, temp_files, received_files, extract_dirs,
                   docker_images, next_uuid, history>>

\* server.py:489-497: one turn of the loop over chunk_info["chunk_files"]:
\* a file that exists is removed and counted, unless os.remove fails.
CompleteRemove(t) ==
    /\ pc[t] = "cmp_remove"
    /\ req[t].i < Len(req[t].chunk_info.chunk_files)
    /\ LET chunk_filename == req[t].chunk_info.chunk_files[req[t].i + 1]
       IN  \E removed \in BOOLEAN :
             /\ removed => chunk_filename \in DOMAIN image_files
             /\ image_files' = IF removed THEN Remove(image_files, chunk_filename)
                               ELSE image_files
             /\ Goto(t, "cmp_remove",
                     [req[t] EXCEPT !.i = @ + 1,
                                    !.cleanup_count = IF removed THEN @ + 1 ELSE @])
    /\ UNCHANGED <<chunk_tracker, image_chunks, temp_files, received_files, extract_dirs,
                   docker_images, next_uuid, history>>

\* Mutant of CompleteDel: the response is sent without del image_chunks[...].
CompleteDel_KeepEntry(t) ==
    /\ pc[t] = "cmp_remove"
    /\ req[t].i = Len(req[t].chunk_info.chunk_files)
    /\ downloads_completed' = downloads_completed \cup {req[t].upload_id}
    /\ Return(t, Response(200, "Image download marked complete",
              [upload_id |-> req[t].upload_id,
               chunks_cleaned |-> req[t].cleanup_count]))
    /\ UNCHANGED <<shared, next_uuid, combine_calls, completions>>

\* server.py:499-507: del image_chunks[upload_id] and the response.
CompleteDel(t) ==
    /\ pc[t] = "cmp_remove"
    /\ req[t].i = Len(req[t].chunk_info.chunk_files)
    /\ IF req[t].upload_id \notin DOMAIN image_chunks
       THEN /\ Return(t, InternalServerError)
            /\ UNCHANGED <<image_chunks, downloads_completed>>
       ELSE /\ image_chunks' = Remove(image_chunks, req[t].upload_id)
            /\ downloads_completed' = downloads_completed \cup {req[t].upload_id}
            /\ Return(t, Response(200, "Image download marked complete",
                      [upload_id |-> req[t].upload_id,
                       chunks_cleaned |-> req[t].cleanup_count]))
    /\ UNCHANGED <<chunk_tracker, temp_files, received_files, extract_dirs,
                   docker_images, image_files, next_uuid, combine_calls, completions>>

\* server.py:480-507: POST /image/<upload_id>/complete
MarkImageDownloadComplete(t) ==
    \/ CompleteLookup(t)
    \/ CompleteRemove(t)
    \/ CompleteDel(t)

\* ------------------------------------------------------ cleanup_temp_files

\* The deletions of one pass over a directory listing: every entry of the
\* listing is removed except those whose removal fails.
Survivors(names) == {kept \in SUBSET names : Cardinality(kept) <= MaxDeleteFailures}

Restrict(f, keys) == [x \in DOMAIN f \cap keys |-> f[x]]

\* os.remove of archives: the handles other threads hold on them go on
\* writing to the unlinked files.
UnlinkAll(t, filenames) ==
    [q \in Threads |->
        IF q # t /\ req[q].filename \in filenames
        THEN [req[q] EXCEPT !.fd_live = FALSE]
        ELSE req[q]]

\* No session, no chunk set, and none of the files and directories a sweep
\* looks for.
StrayFree ==
    /\ chunk_tracker = Empty /\ image_chunks = Empty
    /\ temp_files = Empty /\ image_files = Empty /\ extract_dirs = Empty
    /\ {f \in DOMAIN received_files : EndsWithTarGz(f)} = {}

\* Mutant of SweepFiles: cleanup_count starts at one.
SweepFiles_CountFromOne(t) ==
    /\ pc[t] = "idle"
    /\ LET archives == {f \in DOMAIN received_files : EndsWithTarGz(f)}
       IN  \E kept_temp \in SUBSET DOMAIN temp_files,
              kept_received \in SUBSET archives,
              kept_image \in SUBSET DOMAIN image_files :
             /\ Cardinality(kept_temp) + Cardinality(kept_received)
                   + Cardinality(kept_image) <= MaxDeleteFailures
             /\ temp_files' = Restrict(temp_files, kept_temp)
             /\ received_files' =
                   Restrict(received_files,
                            kept_received \cup (DOMAIN received_files \ archives))
             /\ image_files' = Restrict(image_files, kept_image)
             /\ pc' = [pc EXCEPT ![t] = "sweep_dirs"]
             /\ req' = [UnlinkAll(t, archives \ kept_received) EXCEPT ![t] =
                          [IdleLocals EXCEPT
                              !.sweep_start =
                                  [stray_free |-> StrayFree,
                                   no_images |-> docker_images = {},
                                   after_sweep |-> resp.msg = "Cleaned up"],
                              !.cleanup_count =
                                  1 + Cardinality(DOMAIN temp_files \ kept_temp)
                                  + Cardinality(archives \ kept_received)
                                  + Cardinality(DOMAIN image_files \ kept_image)]]
             /\ resp' = NoResponse
    /\ UNCHANGED <<chunk_tracker, image_chunks, extract_dirs, docker_images,
                   next_uuid, history>>

\* server.py:627-650: the loop over os.listdir('.'): temp_*_chunk_*,
\* received_*.tar.gz and image_chunk_*.tar files are removed and counted;
\* an OSError is swallowed.
SweepFiles(t) ==
    /\ pc[t] = "idle"
    /\ LET archives == {f \in DOMAIN received_files : EndsWithTarGz(f)}
       IN  \E kept_temp \in SUBSET DOMAIN temp_files,
              kept_received \in SUBSET archives,
              kept_image \in SUBSET DOMAIN image_files :
             /\ Cardinality(kept_temp) + Cardinality(kept_received)
                   + Cardinality(kept_image) <= MaxDeleteFailures
             /\ temp_files' = Restrict(temp_files, kept_temp)
             /\ received_files' =
                   Restrict(received_files,
                            kept_received \cup (DOMAIN received_files \ archives))
             /\ image_files' = Restrict(image_files, kept_image)
             /\ pc' = [pc EXCEPT ![t] = "sweep_dirs"]
             /\ req' = [UnlinkAll(t, archives \ kept_received) EXCEPT ![t] =
                          [IdleLocals EXCEPT
                              !.sweep_start =
                                  [stray_free |-> StrayFree,
                                   no_images |-> docker_images = {},
                                   after_sweep |-> resp.msg = "Cleaned up"],
                              !.cleanup_count =
                                  Cardinality(DOMAIN temp_files \ kept_temp)
                                  + Cardinality(archives \ kept_received)
                                  + Cardinality(DOMAIN image_files \ kept_image)]]
             /\ resp' = NoResponse
    /\ UNCHANGED <<chunk_tracker, image_chunks, extract_dirs, docker_images,
                   next_uuid, history>>

\* server.py:650-664: every directory whose name parses as a UUID is removed
\* with shutil.rmtree and counted; an OSError is printed.
SweepDirs(t) ==
    /\ pc[t] = "sweep_dirs"
    /\ \E kept \in Survivors(DOMAIN extract_dirs) :
         /\ extract_dirs' = Restrict(extract_dirs, kept)
         /\ Goto(t, "sweep_docker",
                 [req[t] EXCEPT !.extracted_cleanup_count =
                     Cardinality(DOMAIN extract_dirs \ kept)])
    /\ UNCHANGED <<chunk_tracker, image_chunks, temp_files, received_files,
                   docker_images, image_files, next_uuid, history>>

\* server.py:666-687: docker rmi -f of every image named cicd-build-*; the
\* listing or a removal can fail.
SweepDockerImages(t) ==
    /\ pc[t] = "sweep_docker"
    /\ \E kept \in SUBSET docker_images :
         /\ docker_images' = kept
         /\ Goto(t, "sweep_clear",
                 [req[t] EXCEPT !.i = Cardinality(docker_images \ kept)])
    /\ UNCHANGED <<chunk_tracker, image_chunks, temp_files, received_files,
                   extract_dirs, image_files, next_uuid, history>>

\* Mutant of SweepClear: only chunk_tracker is cleared.
SweepClear_TrackerOnly(t) ==
    /\ pc[t] = "sweep_clear"
    /\ chunk_tracker' = Empty
    /\ image_chunks' = image_chunks
    /\ Return(t, Response(200, "Cleaned up",
              [temp_files_cleaned |-> req[t].cleanup_count,
               directories_cleaned |-> req[t].extracted_cleanup_count,
               docker_images_cleaned |-> req[t].i,
               tracker_cleared |-> TRUE]))
    /\ UNCHANGED <<temp_files, received_files, extract_dirs, docker_images,
                   image_files, next_uuid, history>>

\* server.py:689-699: both trackers are cleared and the counts reported.
SweepClear(t) ==
    /\ pc[t] = "sweep_clear"
    /\ chunk_tracker' = Empty
    /\ image_chunks' = Empty
    /\ Return(t, Response(200, "Cleaned up",
              [temp_files_cleaned |-> req[t].cleanup_count,
               directories_cleaned |-> req[t].extracted_cleanup_count,
               docker_images_cleaned |-> req[t].i,
               tracker_cleared |-> TRUE]))
    /\ UNCHANGED <<temp_files, received_files, extract_dirs, docker_images,
                   image_files, next_uuid, history>>

\* server.py:624-701: POST /cleanup
CleanupTempFiles(t) ==
    \/ SweepFiles(t)
    \/ SweepDirs(t)
    \/ SweepDockerImages(t)
    \/ SweepClear(t)

\* ------------------------------------------------------------ specification

\* The requests a client can send: a chunk, a whole archive, or a form that
\* is rejected before its fields are read.
Receive(t) ==
    \E form \in Forms, chunked \in BOOLEAN, filename \in Filenames,
       architecture \in Architectures, chunk_index \in IndexInputs,
       total_chunks \in TotalInputs :
        /\ form \in {"no_file", "empty_filename"} =>
               /\ ~chunked /\ filename = <<"data", ".tar.gz">>
               /\ architecture = "x64" /\ chunk_index = 0 /\ total_chunks = 0
        /\ ~chunked => chunk_index = 0 /\ total_chunks = 0 /\ form # "bad_int"
        /\ ReceiveData(t, form, chunked, filename, architecture, chunk_index, total_chunks)

Step(t) ==
    \/ Receive(t)
    \/ TrackCreate(t)
    \/ TrackJoin(t)
    \/ SaveChunk(t)
    \/ MarkReceived(t)
    \/ CheckComplete(t)
    \/ CombineVerify(t)
    \/ CombineOpen(t)
    \/ CombineChunk(t)
    \/ SaveWhole(t)
    \/ ExtractTarFile(t)
    \/ DelTracker(t)
    \/ BuildDockerImage(t)
    \/ ExportAndSplit(t)
    \/ RegisterImageChunks(t)

\* Uploads handled by the threads of the server, their steps interleaved.
Next == \E t \in Threads : Step(t)

Spec == Init /\ [][Next]_vars

\* Uploads, one request at a time: every request is handled by the same thread.
SerialNext == Step("t1")

SerialSpec == Init /\ [][SerialNext]_vars

\* Every endpoint of the server, one request at a time.
ServiceNext ==
    \/ Step("t1")
    \/ GetImageInfo("t1")
    \/ DownloadImageChunk("t1")
    \/ MarkImageDownloadComplete("t1")
    \/ CleanupTempFiles("t1")

ServiceSpec == Init /\ [][ServiceNext]_vars

\* No write of a chunk file and no read of one during assembly has failed.
NoIOFailure ==
    resp.msg \notin {"Failed to save chunk",
                     "Failed to combine chunks: Error processing chunk"}

\* Uploads, one request at a time, without a failed chunk write or read.
ReliableNext == Step("t1") /\ NoIOFailure'

\* A handler that has started runs to its return: no step of receive_data
\* waits for another request.
ReliableSpec ==
    Init /\ [][ReliableNext]_vars /\ WF_vars(ReliableNext /\ pc["t1"] # "idle")

\* Uploads and complete requests on one thread while the other thread sends
\* complete requests, the steps of the two interleaved.
CompleteRaceNext ==
    \/ Step("t1")
    \/ MarkImageDownloadComplete("t1")
    \/ MarkImageDownloadComplete("t2")

CompleteRaceSpec == Init /\ [][CompleteRaceNext]_vars

\* The deletions of a sweep all succeed: its pass over the files leaves no
\* chunk file, archive or exported chunk, its pass over the directories no
\* workspace.
DeletionsSucceed(t) ==
    /\ (pc[t] = "idle" /\ pc'[t] = "sweep_dirs") =>
          /\ temp_files' = Empty /\ image_files' = Empty
          /\ {f \in DOMAIN received_files' : EndsWithTarGz(f)} = {}
    /\ (pc[t] = "sweep_dirs" /\ pc'[t] = "sweep_docker") => extract_dirs' = Empty

\* Uploads on one thread while the other thread runs sweeps whose deletions
\* all succeed, the steps of the two interleaved.
SweepRaceNext ==
    \/ Step("t1")
    \/ CleanupTempFiles("t2") /\ DeletionsSucceed("t2")

SweepRaceSpec == Init /\ [][SweepRaceNext]_vars

\* ------------------------------------------------------------------ claims

InCombine(t) == pc[t] \in {"verify", "open", "combine"}

Registered(t) == Key(t) \in DOMAIN chunk_tracker

\* C1: when concurrent submissions deliver the last missing indices of a
\* session, its assembly is started at most once: two handlers are never
\* inside combine_chunks for the same upload_id.
C1_AssemblyStartedOnce ==
    \A t \in Threads, q \in Threads :
        (t # q /\ InCombine(t) /\ InCombine(q)) => req[t].upload_id # req[q].upload_id

OriginalArchive(architecture, n) == [i \in 1 .. n |-> Payload(architecture, i - 1)]

\* C3: whatever the order in which the indices 0..N-1 arrived, the archive
\* combine_chunks has produced is the concatenation of the chunk payloads in
\* ascending index order.
C3_AssembledArchiveIsOriginal ==
    \A t \in Threads :
        (pc[t] = "extract" /\ req[t].chunked) =>
            /\ req[t].filename \in DOMAIN received_files
            /\ received_files[req[t].filename] =
                  OriginalArchive(req[t].architecture, req[t].total_chunks)

\* An archive of several chunks has been assembled and index 0 arrived last.
C3_Witness ==
    \E t \in Threads :
        /\ pc[t] = "extract" /\ req[t].chunked
        /\ req[t].total_chunks >= 2 /\ req[t].chunk_index = 0

\* C4: a chunk whose total_chunks differs from its registered session's is
\* answered 400 "Inconsistent total_chunks" and neither the lookup nor the
\* comparison changes a session or writes a chunk file.
C4_MismatchRejectedSessionUntouched ==
    [][\A t \in Threads :
         /\ (pc[t] = "idle" /\ pc'[t] = "join") =>
               chunk_tracker' = chunk_tracker /\ temp_files' = temp_files
         /\ ( /\ pc[t] = "join" /\ pc'[t] # "join" /\ Registered(t)
              /\ chunk_tracker[Key(t)].total_chunks # req[t].total_chunks ) =>
               /\ pc'[t] = "idle"
               /\ resp' = [thread |-> t, status |-> 400,
                           msg |-> "Inconsistent total_chunks for this upload",
                           detail |-> <<>>]
               /\ chunk_tracker' = chunk_tracker
               /\ temp_files' = temp_files]_vars

\* A mismatching chunk has been rejected while its session is registered.
C4_Witness ==
    /\ resp.msg = "Inconsistent total_chunks for this upload"
    /\ chunk_tracker # Empty

\* C5: a chunk with index < 0, index >= total_chunks, total_chunks <= 0 or a
\* filename that does not end in .tar.gz is answered 400 by the step that
\* receives it, and that step changes no session and no file.
C5_InvalidChunkRejectedWithoutEffect ==
    [][\A t \in Threads, filename \in Filenames, architecture \in Architectures,
          chunk_index \in IndexInputs, total_chunks \in TotalInputs :
         ( /\ \/ chunk_index < 0
              \/ chunk_index >= total_chunks
              \/ total_chunks <= 0
              \/ filename[2] # ".tar.gz"
           /\ ReceiveData(t, "ok", TRUE, filename, architecture,
                          chunk_index, total_chunks) ) =>
            /\ pc'[t] = "idle"
            /\ resp'.thread = t /\ resp'.status = 400
            /\ resp'.msg \in {"Invalid chunk parameters", "Invalid original file type"}
            /\ chunk_tracker' = chunk_tracker
            /\ temp_files' = temp_files
            /\ received_files' = received_files
            /\ UNCHANGED <<image_chunks, extract_dirs, docker_images, image_files>>]_vars

\* An invalid chunk has been rejected while a session is registered.
C5_Witness ==
    /\ resp.status = 400
    /\ resp.msg \in {"Invalid chunk parameters", "Invalid original file type"}
    /\ chunk_tracker # Empty

PipelineMessages ==
    {"extraction failed", "Docker build failed", "export failed",
     "Docker image built and exported successfully"}

\* C7: once a chunked upload has been assembled, its registry entry is
\* removed in the same request whatever extraction, build and export give:
\* the build and later stages run without it, and when the request's
\* response is sent no entry exists for the key.
C7_SessionRemovedOnCompletion ==
    /\ \A t \in Threads :
          (req[t].chunked /\ pc[t] \in {"build", "export", "register"}) =>
              /\ ~Registered(t)
              /\ Count(completions, req[t].upload_id) = 1
    /\ (resp.msg \in PipelineMessages
          /\ resp.detail.outcome.upload = "All chunks received") =>
          /\ UploadKey(resp.detail.outcome.filename, resp.detail.outcome.architecture)
                \notin DOMAIN chunk_tracker
          /\ Count(completions, resp.detail.outcome.id) = 1

\* A chunked upload was assembled, its extraction failed, and the response
\* has been sent.
C7_Witness ==
    /\ resp.msg = "extraction failed"
    /\ resp.detail.outcome.upload = "All chunks received"

\* C8: while a key stays registered its session keeps its upload_id and its
\* total_chunks, and a chunk saved for the session is written under that
\* upload_id and nowhere else.
C8_SessionIdentityImmutable ==
    [][/\ \A k \in DOMAIN chunk_tracker \cap DOMAIN chunk_tracker' :
             /\ chunk_tracker'[k].upload_id = chunk_tracker[k].upload_id
             /\ chunk_tracker'[k].total_chunks = chunk_tracker[k].total_chunks
       /\ \A t \in Threads :
             (pc[t] = "save" /\ pc'[t] = "mark") =>
                 /\ Registered(t)
                 /\ LET path == <<chunk_tracker[Key(t)].upload_id, req[t].chunk_index>>
                    IN  /\ path \in DOMAIN temp_files'
                        /\ temp_files' = Put(temp_files, path, temp_files'[path])]_vars

\* A chunk of a request that drew a uuid4 of its own has been saved under
\* the upload_id of the session registered before it.
C8_Witness ==
    \E t \in Threads :
        /\ pc[t] = "mark" /\ Registered(t)
        /\ chunk_tracker[Key(t)].received_chunks # {}
        /\ req[t].upload_id + 1 < next_uuid
        /\ <<chunk_tracker[Key(t)].upload_id, req[t].chunk_index>> \in DOMAIN temp_files

\* C9: combine_chunks looks for every chunk file before it writes: when
\* some are absent it returns exactly the absent indices of
\* range(total_chunks), and neither creates nor changes an archive nor
\* deletes a chunk file; the archive is opened only when none is absent.
C9_MissingChunksReportedExactly ==
    [][\A t \in Threads :
         (pc[t] = "verify" /\ pc'[t] # "verify") =>
            LET absent == {i \in 0 .. req[t].total_chunks - 1 :
                              <<req[t].upload_id, i>> \notin DOMAIN temp_files}
            IN  /\ received_files' = received_files
                /\ temp_files' = temp_files
                /\ absent = {} => pc'[t] = "open"
                /\ absent # {} =>
                      /\ pc'[t] = "idle"
                      /\ resp'.thread = t /\ resp'.status = 500
                      /\ resp'.msg = "Failed to combine chunks: Missing chunks"
                      /\ Len(resp'.detail) = Cardinality(absent)
                      /\ {resp'.detail[n] : n \in 1 .. Len(resp'.detail)} = absent]_vars

\* combine_chunks has returned a non-empty list of missing chunks.
C9_Witness ==
    /\ resp.msg = "Failed to combine chunks: Missing chunks"
    /\ Len(resp.detail) >= 1

\* C10: when reading a chunk fails during assembly, no partially written
\* file is left at the archive's final path.
C10_NoPartialArchiveAfterFailure ==
    [][\A t \in Threads :
         (pc[t] = "combine" /\ pc'[t] = "idle") =>
            ~ /\ req[t].filename \in DOMAIN received_files'
              /\ Len(received_files'[req[t].filename]) < req[t].total_chunks]_vars

\* C11: a chunk request for an upload_id without a registered chunk set is
\* answered 404 whatever the index; for a registered set an index outside
\* 0 .. total_chunks - 1 is answered 400 "Invalid chunk index"; bytes are
\* sent only for a registered set and an index in range, and they are the
\* bytes of that index's file.
C11_ChunkLookupAndBounds ==
    [][\A t \in Threads :
         /\ \A upload_id \in UploadIds, chunk_index \in ChunkIndexInputs :
               ( /\ ImageLookup(t, upload_id, chunk_index, "chunk")
                 /\ upload_id \notin DOMAIN image_chunks ) =>
                  /\ pc'[t] = "idle"
                  /\ resp'.thread = t /\ resp'.status = 404
                  /\ resp'.msg = "Image chunks not found for this upload ID"
         /\ ( /\ pc[t] = "chunk" /\ pc'[t] # "chunk"
              /\ req[t].upload_id \in DOMAIN image_chunks
              /\ \/ req[t].chunk_index < 0
                 \/ req[t].chunk_index >= image_chunks[req[t].upload_id].total_chunks ) =>
               /\ pc'[t] = "idle"
               /\ resp'.thread = t /\ resp'.status = 400
               /\ resp'.msg = "Invalid chunk index"
         /\ (resp'.thread = t /\ resp'.msg = "chunk") =>
               /\ pc[t] = "chunk"
               /\ req[t].upload_id \in DOMAIN image_chunks
               /\ req[t].chunk_index >= 0
               /\ req[t].chunk_index < image_chunks[req[t].upload_id].total_chunks
               /\ resp'.detail.data =
                     image_files[image_chunks[req[t].upload_id]
                                    .chunk_files[req[t].chunk_index + 1]]]_vars

\* Index N of a registered N-chunk set has been refused.
C11_Witness ==
    /\ resp.status = 400 /\ resp.msg = "Invalid chunk index"
    /\ \E id \in DOMAIN image_chunks :
          resp.detail = <<0, image_chunks[id].total_chunks - 1>>

\* The chunk files a chunk set lists that are on disk.
OnDisk(chunk_files, files) ==
    {n \in 1 .. Len(chunk_files) : chunk_files[n] \in DOMAIN files}

\* A lookup by any of info, chunk and complete of an id that has no chunk
\* set is answered 404 and changes neither the registry nor a file.
LookupOfAbsentIdIsNotFound(t) ==
    \A upload_id \in UploadIds, chunk_index \in ChunkIndexInputs,
       p \in {"info", "chunk", "complete"} :
        ( /\ ImageLookup(t, upload_id, chunk_index, p)
          /\ (upload_id \in downloads_completed \/ upload_id \notin DOMAIN image_chunks) ) =>
           /\ pc'[t] = "idle"
           /\ resp'.thread = t /\ resp'.status = 404
           /\ resp'.msg = "Image chunks not found for this upload ID"
           /\ image_chunks' = image_chunks
           /\ image_files' = image_files

\* C12 as stated: a complete request on a registered chunk set removes the
\* set and leaves none of its chunk files on disk; the id never has a chunk
\* set again, so every later info, chunk or complete for it is answered 404,
\* as is complete on an id without a set, which deletes nothing.
C12_CompleteLeavesNoChunkFile ==
    [][\A t \in Threads :
         /\ (pc[t] = "cmp_remove" /\ pc'[t] = "idle" /\ resp'.status = 200) =>
               /\ req[t].upload_id \notin DOMAIN image_chunks'
               /\ OnDisk(req[t].chunk_info.chunk_files, image_files') = {}
         /\ downloads_completed' \cap DOMAIN image_chunks' = {}
         /\ LookupOfAbsentIdIsNotFound(t)]_vars

\* C12 amended: a complete request on a registered chunk set removes the set
\* and leaves on disk only those of its chunk files whose deletion failed
\* (as many as the set lists less the count it reports); the id never has a
\* chunk set again, so every later info, chunk or complete for it is
\* answered 404, as is complete on an id without a set, which deletes nothing.
C12_CompleteRemovesSetAndDeletableFiles ==
    [][\A t \in Threads :
         /\ (pc[t] = "cmp_remove" /\ pc'[t] = "idle" /\ resp'.status = 200) =>
               /\ req[t].upload_id \notin DOMAIN image_chunks'
               /\ Cardinality(OnDisk(req[t].chunk_info.chunk_files, image_files'))
                     = Len(req[t].chunk_info.chunk_files) - resp'.detail.chunks_cleaned
         /\ downloads_completed' \cap DOMAIN image_chunks' = {}
         /\ LookupOfAbsentIdIsNotFound(t)]_vars

\* A complete request has removed a chunk set after deleting one of its
\* files and failing to delete another, which is still on disk.
C12_Witness ==
    /\ resp.msg = "Image download marked complete"
    /\ resp.detail.chunks_cleaned = 1
    /\ resp.detail.upload_id \in downloads_completed
    /\ \E n \in 0 .. NumImageChunks(MaxBlobLen) :
          ImageChunkName(resp.detail.upload_id, n) \in DOMAIN image_files

\* C13: in a complete request a file whose deletion fails is not counted and
\* does not stop the loop: every turn moves to the next file and counts
\* exactly the file it removed, and the request ends only after the last
\* file, with the set removed from the registry, status 200 and the count of
\* the files removed.
C13_DeletionFailureTolerated ==
    [][\A t \in Threads :
         (pc[t] = "cmp_remove" /\ (pc'[t] # pc[t] \/ req'[t] # req[t])) =>
            LET chunk_files == req[t].chunk_info.chunk_files
            IN  IF pc'[t] = "cmp_remove"
                THEN LET chunk_filename == chunk_files[req[t].i + 1]
                         removed == /\ chunk_filename \in DOMAIN image_files
                                    /\ chunk_filename \notin DOMAIN image_files'
                     IN  /\ req'[t].i = req[t].i + 1
                         /\ req'[t].cleanup_count =
                               req[t].cleanup_count + (IF removed THEN 1 ELSE 0)
                         /\ image_files' = IF removed
                                           THEN Remove(image_files, chunk_filename)
                                           ELSE image_files
                         /\ image_chunks' = image_chunks
                ELSE /\ pc'[t] = "idle"
                     /\ req[t].i = Len(chunk_files)
                     /\ resp'.thread = t /\ resp'.status = 200
                     /\ resp'.msg = "Image download marked complete"
                     /\ resp'.detail.chunks_cleaned = req[t].cleanup_count
                     /\ req[t].cleanup_count =
                           Len(chunk_files) - Cardinality(OnDisk(chunk_files, image_files'))
                     /\ req[t].upload_id \notin DOMAIN image_chunks']_vars

\* A complete request whose every deletion failed has ended with success.
C13_Witness ==
    /\ resp.status = 200 /\ resp.msg = "Image download marked complete"
    /\ resp.detail.chunks_cleaned = 0
    /\ ImageChunkName(resp.detail.upload_id, 0) \in DOMAIN image_files
    /\ resp.detail.upload_id \notin DOMAIN image_chunks

\* The sum of the lengths of the first n files a chunk list names.
RECURSIVE SumOfSizes(_, _, _)
SumOfSizes(files, chunk_files, n) ==
    IF n = 0 THEN 0
    ELSE SumOfSizes(files, chunk_files, n - 1) + Len(files[chunk_files[n]])

\* C14: the original_size of a chunk set, when export_and_split_docker_image
\* returns it and when it is registered, is the sum of the lengths of the
\* set's chunk files, whether the last chunk is short or full.
C14_OriginalSizeIsSumOfChunkSizes ==
    /\ \A t \in Threads :
          pc[t] = "register" =>
              req[t].export_result.original_size =
                  SumOfSizes(image_files, req[t].export_result.chunk_files,
                             Len(req[t].export_result.chunk_files))
    /\ \A id \in DOMAIN image_chunks :
          image_chunks[id].original_size =
              SumOfSizes(image_files, image_chunks[id].chunk_files,
                         Len(image_chunks[id].chunk_files))

\* A chunk set whose last chunk is shorter than the first is registered.
C14_Witness ==
    \E id \in DOMAIN image_chunks :
        LET chunk_files == image_chunks[id].chunk_files
        IN  /\ Len(chunk_files) >= 2
            /\ Len(image_files[chunk_files[Len(chunk_files)]])
                  < Len(image_files[chunk_files[1]])

\* The files a chunk list names, one after the other.
RECURSIVE Concatenation(_, _, _)
Concatenation(files, chunk_files, n) ==
    IF n = 0 THEN <<>>
    ELSE Concatenation(files, chunk_files, n - 1) \o files[chunk_files[n]]

\* C15: the chunk list of a registered set never changes; while the set's
\* files are on disk, file i is bytes i * ChunkSize + 1 .. (i + 1) * ChunkSize
\* of the exported blob (fewer for the last), the files in list order make
\* up the blob, and a chunk request for index i is answered with file i.
C15_ChunksAreSlicesInOffsetOrder ==
    [][/\ \A id \in DOMAIN image_chunks \cap DOMAIN image_chunks' :
             image_chunks'[id].chunk_files = image_chunks[id].chunk_files
       /\ \A id \in DOMAIN image_chunks' :
             LET chunk_files == image_chunks'[id].chunk_files
                 blob == ExportBlob(image_chunks'[id].original_size)
             IN  OnDisk(chunk_files, image_files') = 1 .. Len(chunk_files) =>
                    /\ Concatenation(image_files', chunk_files, Len(chunk_files)) = blob
                    /\ \A n \in 1 .. Len(chunk_files) :
                          /\ image_files'[chunk_files[n]] # <<>>
                          /\ \A b \in 1 .. Len(image_files'[chunk_files[n]]) :
                                image_files'[chunk_files[n]][b] = blob[(n - 1) * ChunkSize + b]
                          /\ n < Len(chunk_files) =>
                                Len(image_files'[chunk_files[n]]) = ChunkSize
       /\ \A t \in Threads :
             (resp'.thread = t /\ resp'.msg = "chunk") =>
                 resp'.detail.data =
                    image_files[image_chunks[req[t].upload_id]
                                   .chunk_files[req[t].chunk_index + 1]]]_vars

\* The second chunk of a three-byte blob has been downloaded: its last byte.
C15_Witness ==
    /\ resp.status = 200 /\ resp.msg = "chunk"
    /\ resp.detail.chunk_index = 1
    /\ resp.detail.data = <<3>>

\* The responses that report a failed stage of an upload.
FailureMessages ==
    {"extraction failed", "Docker build failed", "export failed"}

\* C16: an entry of image_chunks is made only by the request whose upload_id
\* it is, after that request's image was built and its export wrote at least
\* one chunk file, all on disk; a request that reports a failed extraction,
\* build or export leaves no entry under its upload_id.
C16_RegisteredOnlyAfterBuildAndExport ==
    [][/\ \A id \in DOMAIN image_chunks' \ DOMAIN image_chunks :
             \E t \in Threads :
                /\ pc[t] = "register" /\ pc'[t] = "idle" /\ req[t].upload_id = id
                /\ ImageName(req[t].architecture, id) \in docker_images
                /\ image_chunks'[id].total_chunks >= 1
                /\ OnDisk(image_chunks'[id].chunk_files, image_files')
                      = 1 .. image_chunks'[id].total_chunks
                /\ resp'.msg = "Docker image built and exported successfully"
       /\ resp'.msg \in FailureMessages =>
             resp'.detail.outcome.id \notin DOMAIN image_chunks'
       /\ resp'.msg \in {"Failed to combine chunks: Missing chunks",
                         "Failed to combine chunks: Error processing chunk",
                         "Failed to save file", "Failed to save chunk"} =>
             image_chunks' = image_chunks]_vars

\* An export has failed after a successful build and nothing is registered
\* for the upload.
C16_Witness ==
    /\ resp.msg = "export failed"
    /\ resp.detail.docker_image \in docker_images
    /\ resp.detail.outcome.id \notin DOMAIN image_chunks

C18_LaterFailureKeepsEarlierStages ==
    [][\A t \in Threads :
         /\ (pc[t] = "build" /\ pc'[t] # "build") =>
               /\ extract_dirs' = extract_dirs
               /\ pc'[t] \in {"export", "idle"}
               /\ pc'[t] = "idle" =>
                     /\ resp'.thread = t /\ resp'.msg = "Docker build failed"
                     /\ resp'.detail.extracted_to = req[t].upload_id
                     /\ req[t].upload_id \in DOMAIN extract_dirs'
                     /\ resp'.detail.outcome.id = req[t].upload_id
         /\ (pc[t] = "export" /\ pc'[t] # "export") =>
               /\ extract_dirs' = extract_dirs
               /\ docker_images' = docker_images
               /\ pc'[t] \in {"register", "idle"}
               /\ pc'[t] = "idle" =>
                     /\ resp'.thread = t /\ resp'.msg = "export failed"
                     /\ resp'.detail.extracted_to = req[t].upload_id
                     /\ req[t].upload_id \in DOMAIN extract_dirs'
                     /\ resp'.detail.docker_image = ImageName(req[t].architecture,
                                                              req[t].upload_id)
                     /\ resp'.detail.docker_image \in docker_images']_vars

\* A build has failed for want of a Dockerfile and the workspace it looked
\* in is still there.
C18_Witness ==
    /\ resp.msg = "Docker build failed"
    /\ resp.detail.docker_build_error = "No Dockerfile found"
    /\ resp.detail.extracted_to \in DOMAIN extract_dirs

\* The positions at which a handler writes, reads or removes the combined
\* archive ./received_{filename}.
UsesArchive(t) == pc[t] \in {"save_whole", "open", "combine", "extract"}

\* C19: two requests that run the pipeline for different upload ids never
\* work on the same combined-archive path.
C19_ArchivePathPerSession ==
    \A t \in Threads, q \in Threads :
        ( /\ t # q /\ UsesArchive(t) /\ UsesArchive(q)
          /\ req[t].upload_id # req[q].upload_id ) =>
            req[t].filename # req[q].filename

\* The files and directories a sweep looks for that are on disk.
SweepableFiles(temp, received, image) ==
    Cardinality(DOMAIN temp)
    + Cardinality({f \in DOMAIN received : EndsWithTarGz(f)})
    + Cardinality(DOMAIN image)

\* C20 as stated: when a sweep returns, chunk_tracker and image_chunks are
\* empty and no chunk file, combined archive, exported chunk file or
\* workspace directory is left.
C20_SweepLeavesNothing ==
    [][\A t \in Threads :
         (pc[t] = "sweep_clear" /\ pc'[t] = "idle") =>
            /\ chunk_tracker' = Empty
            /\ image_chunks' = Empty
            /\ SweepableFiles(temp_files', received_files', image_files') = 0
            /\ extract_dirs' = Empty]_vars

\* C20 amended: when a sweep returns, chunk_tracker and image_chunks are
\* empty, and the only chunk files, combined archives, exported chunk files
\* and workspace directories left are those the sweep failed to delete: the
\* sweep creates nothing, counts what it removed, and leaves at most as many
\* files and as many directories as deletions can fail.
C20_SweepLeavesOnlyUndeletable ==
    [][\A t \in Threads :
         /\ (pc[t] = "idle" /\ pc'[t] = "sweep_dirs") =>
               /\ temp_files' = Restrict(temp_files, DOMAIN temp_files')
               /\ received_files' = Restrict(received_files, DOMAIN received_files')
               /\ image_files' = Restrict(image_files, DOMAIN image_files')
               /\ req'[t].cleanup_count =
                     SweepableFiles(temp_files, received_files, image_files)
                     - SweepableFiles(temp_files', received_files', image_files')
         /\ (pc[t] = "sweep_dirs" /\ pc'[t] = "sweep_docker") =>
               /\ extract_dirs' = Restrict(extract_dirs, DOMAIN extract_dirs')
               /\ req'[t].extracted_cleanup_count =
                     Cardinality(DOMAIN extract_dirs) - Cardinality(DOMAIN extract_dirs')
         /\ (pc[t] = "sweep_clear" /\ pc'[t] = "idle") =>
               /\ chunk_tracker' = Empty
               /\ image_chunks' = Empty
               /\ resp'.thread = t /\ resp'.status = 200
               /\ resp'.detail.temp_files_cleaned = req[t].cleanup_count
               /\ resp'.detail.directories_cleaned = req[t].extracted_cleanup_count
               /\ SweepableFiles(temp_files', received_files', image_files')
                     <= MaxDeleteFailures
               /\ Cardinality(DOMAIN extract_dirs') <= MaxDeleteFailures]_vars

\* C20 witness: a sweep has returned after removing files and a directory,
\* and one file it could not delete is still on disk.
C20_Witness ==
    /\ resp.msg = "Cleaned up"
    /\ resp.detail.temp_files_cleaned >= 1
    /\ resp.detail.directories_cleaned >= 1
    /\ chunk_tracker = Empty /\ image_chunks = Empty
    /\ SweepableFiles(temp_files, received_files, image_files) = 1

\* The steps of a sweep.
InSweep(t) == pc[t] \in {"sweep_dirs", "sweep_docker", "sweep_clear"}

\* What a sweep that had nothing to do does: no step of it changes a file, a
\* directory, an image or a registry, and it reports zero for every count.
SweepIsNoOp(t) ==
    /\ (InSweep(t) \/ InSweep(t)') => UNCHANGED shared
    /\ (pc[t] = "sweep_clear" /\ pc'[t] = "idle") =>
          /\ resp'.thread = t /\ resp'.status = 200 /\ resp'.msg = "Cleaned up"
          /\ resp'.detail.temp_files_cleaned = 0
          /\ resp'.detail.directories_cleaned = 0
          /\ resp'.detail.docker_images_cleaned = 0

\* C21 as stated: a sweep that starts with no session, no chunk set and no
\* stray file or directory, or that starts right after another sweep has
\* returned, changes neither the files nor the registries and reports zero
\* for every count.
C21_SweepIdempotent ==
    [][\A t \in Threads :
         ( /\ InSweep(t) \/ InSweep(t)'
           /\ LET start == IF InSweep(t) THEN req[t].sweep_start ELSE req'[t].sweep_start
              IN  start.stray_free \/ start.after_sweep ) =>
            SweepIsNoOp(t)]_vars

\* C21 amended: a sweep that starts with no session, no chunk set, no stray
\* file or directory and no built image changes neither the files nor the
\* registries and reports zero for every count.
C21_SweepOfCleanStateIsNoOp ==
    [][\A t \in Threads :
         ( /\ InSweep(t) \/ InSweep(t)'
           /\ LET start == IF InSweep(t) THEN req[t].sweep_start ELSE req'[t].sweep_start
              IN  start.stray_free /\ start.no_images ) =>
            SweepIsNoOp(t)]_vars

\* C21 witness: after requests were served, a sweep that began right after
\* another sweep returned has found nothing to remove and is about to return.
C21_Witness ==
    \E t \in Threads :
        /\ pc[t] = "sweep_clear"
        /\ req[t].sweep_start.stray_free /\ req[t].sweep_start.no_images
        /\ req[t].sweep_start.after_sweep
        /\ next_uuid > 1

\* C22: when a sweep has run interleaved with a chunk submission and both
\* have returned, every index in the received set of a registered session
\* whose assembly was not attempted has its chunk file, and every chunk file
\* on disk is that of a registered session.
C22_SweepSafeDuringSubmission ==
    (\A t \in Threads : pc[t] = "idle") =>
        /\ \A k \in DOMAIN chunk_tracker :
              Count(combine_calls, chunk_tracker[k].upload_id) = 0 =>
                  \A i \in chunk_tracker[k].received_chunks :
                      <<chunk_tracker[k].upload_id, i>> \in DOMAIN temp_files
        /\ \A f \in DOMAIN temp_files :
              \E k \in DOMAIN chunk_tracker : chunk_tracker[k].upload_id = f[1]

\* Every chunk file a registered chunk set lists is on disk.
ListedChunkFilesExist ==
    \A id \in DOMAIN image_chunks :
        OnDisk(image_chunks[id].chunk_files, image_files)
            = 1 .. Len(image_chunks[id].chunk_files)

Stage(p) ==
    IF p \in {"verify", "open", "combine", "save_whole"} THEN 1
    ELSE IF p \in {"extract", "del"} THEN 2
    ELSE IF p = "build" THEN 3
    ELSE IF p = "export" THEN 4
    ELSE IF p = "register" THEN 5
    ELSE 0

\* C24: a request goes through assemble, extract, build, export and register
\* in that order and under one upload_id; a stage is entered only from the
\* stage before it, when that stage succeeded (the archive, the workspace,
\* the image, the chunk files are there); after a failed stage the request
\* ends; and a sweep starts only when its thread is idle, never from inside
\* an upload.
C24_StagesInOrder ==
    [][\A t \in Threads :
         /\ (Stage(pc[t]) > 0 /\ pc'[t] # pc[t]) =>
               /\ Stage(pc'[t]) \in {0, Stage(pc[t]), Stage(pc[t]) + 1}
               /\ Stage(pc'[t]) = 0 => pc'[t] = "idle"
               /\ Stage(pc'[t]) > 0 => req'[t].upload_id = req[t].upload_id
         /\ (Stage(pc'[t]) > 1 /\ pc'[t] # pc[t]) => Stage(pc[t]) > 0
         /\ (pc'[t] = "extract" /\ pc[t] # "extract") =>
               /\ req[t].filename \in DOMAIN received_files'
               /\ req[t].chunked =>
                     /\ pc[t] = "combine"
                     /\ \A i \in 0 .. req[t].total_chunks - 1 :
                           <<req[t].upload_id, i>> \notin DOMAIN temp_files'
         /\ (pc'[t] = "build" /\ pc[t] # "build") =>
               /\ pc[t] = IF req[t].chunked THEN "del" ELSE "extract"
               /\ req'[t].extract_success
               /\ req[t].upload_id \in DOMAIN extract_dirs'
               /\ req[t].filename \notin DOMAIN received_files'
         /\ (pc[t] = "del" /\ pc'[t] # "del" /\ ~req[t].extract_success) =>
               pc'[t] = "idle"
         /\ (pc'[t] = "export" /\ pc[t] # "export") =>
               /\ req[t].upload_id \in DOMAIN extract_dirs
               /\ extract_dirs[req[t].upload_id].dockerfile
               /\ ImageName(req[t].architecture, req[t].upload_id) \in docker_images'
         /\ (pc'[t] = "register" /\ pc[t] # "register") =>
               /\ ImageName(req[t].architecture, req[t].upload_id) \in docker_images
               /\ req'[t].export_result.total_chunks >= 1
               /\ OnDisk(req'[t].export_result.chunk_files, image_files')
                     = 1 .. req'[t].export_result.total_chunks
         /\ \A id \in DOMAIN image_chunks' \ DOMAIN image_chunks :
               \E q \in Threads : pc[q] = "register" /\ req[q].upload_id = id
         /\ (InSweep(t)' /\ ~InSweep(t)) => pc[t] = "idle"
         /\ (Stage(pc[t]) > 0 \/ pc[t] \in {"create", "join", "save", "mark", "check"}) =>
               /\ ~InSweep(t)'
               /\ chunk_tracker' # chunk_tracker =>
                     pc[t] \in {"create", "mark", "del"}]_vars

\* C24 witness: a chunked upload has gone through every stage, each once,
\* and its chunk set is registered.
C24_Witness ==
    /\ resp.msg = "Docker image built and exported successfully"
    /\ resp.detail.outcome.upload = "All chunks received"
    /\ resp.detail.outcome.id \in DOMAIN image_chunks
    /\ Count(combine_calls, resp.detail.outcome.id) = 1

\* The chunk file of index i has been written for the session upload_id, of
\* total_chunks chunks.
Delivered(upload_id, chunk_index, total_chunks) ==
    \E t \in Threads :
        /\ pc[t] = "mark" /\ req[t].upload_id = upload_id
        /\ req[t].chunk_index = chunk_index /\ req[t].total_chunks = total_chunks

\* A request has marked the last missing index of the session upload_id.
DeliveredLastMissing(upload_id) ==
    \E t \in Threads :
        /\ pc[t] = "check" /\ req[t].upload_id = upload_id
        /\ ~req[t].redelivery /\ Registered(t)
        /\ Cardinality(chunk_tracker[Key(t)].received_chunks) = req[t].total_chunks

UsedIds ==
    {chunk_tracker[k].upload_id : k \in DOMAIN chunk_tracker}
    \cup DOMAIN combine_calls \cup DOMAIN completions
    \cup {f[1] : f \in DOMAIN temp_files}
    \cup DOMAIN extract_dirs \cup DOMAIN image_chunks

\* C26: a chunk whose key has no registered session, as is the case once the
\* key's session was completed and removed, opens a new session: the session
\* is registered under the request's own uuid4, which no session, file,
\* workspace or chunk set has had, with an empty received set that the
\* request's own index is then the only member of; with total_chunks = 1 the
\* request goes on to assemble, and so runs the pipeline a second time.
C26_RedeliveryAfterCompletionIsNewSession ==
    [][\A t \in Threads :
         /\ (pc[t] = "create" /\ pc'[t] # "create") =>
               /\ pc'[t] = "save"
               /\ req[t].upload_id \notin UsedIds
               /\ req'[t].upload_id = req[t].upload_id
               /\ chunk_tracker' = Put(chunk_tracker, Key(t), chunk_tracker'[Key(t)])
               /\ chunk_tracker'[Key(t)].upload_id = req[t].upload_id
               /\ chunk_tracker'[Key(t)].received_chunks = {}
               /\ chunk_tracker'[Key(t)].total_chunks = req[t].total_chunks
         /\ ( /\ pc[t] = "mark" /\ pc'[t] = "check"
              /\ chunk_tracker[Key(t)].received_chunks = {} ) =>
               chunk_tracker'[Key(t)].received_chunks = {req[t].chunk_index}
         /\ ( /\ pc[t] = "check" /\ pc'[t] # "check" /\ req[t].total_chunks = 1
              /\ Registered(t) /\ chunk_tracker[Key(t)].received_chunks = {0} ) =>
               /\ pc'[t] = "verify"
               /\ Count(combine_calls', req[t].upload_id)
                     = Count(combine_calls, req[t].upload_id) + 1]_vars

\* C26 witness: a one-chunk upload was assembled, built, exported and
\* registered, its session removed; the same chunk, delivered again, has a
\* session and an upload_id of its own and has been assembled, extracted,
\* built and exported a second time.
C26_Witness ==
    \E t \in Threads :
        /\ pc[t] = "register" /\ req[t].chunked /\ req[t].total_chunks = 1
        /\ Count(combine_calls, req[t].upload_id) = 1
        /\ \E first \in DOMAIN image_chunks :
              /\ first # req[t].upload_id
              /\ Count(completions, first) = 1
              /\ image_chunks[first].architecture = req[t].architecture

\* C27: when no request is in flight, every registered session has
\* total_chunks > 0, a received set within 0 .. total_chunks - 1, and fewer
\* than total_chunks received indices.
C27_IdleSessionsAreWellFormedAndPartial ==
    (\A t \in Threads : pc[t] = "idle") =>
        \A k \in DOMAIN chunk_tracker :
            /\ chunk_tracker[k].total_chunks > 0
            /\ chunk_tracker[k].received_chunks
                  \subseteq 0 .. chunk_tracker[k].total_chunks - 1
            /\ Cardinality(chunk_tracker[k].received_chunks)
                  < chunk_tracker[k].total_chunks

\* C28: when combine_chunks fails (a chunk file is missing, or reading one
\* fails), the request is answered 500 with the failure, nothing is
\* extracted, built or exported, and the session stays registered with its
\* full received set; a later request that re-delivers one of its indices
\* and has saved its chunk calls combine_chunks again.
C28_FailedAssemblyKeepsFullSession ==
    [][\A t \in Threads :
         /\ (InCombine(t) /\ pc'[t] = "idle") =>
               /\ resp'.thread = t /\ resp'.status = 500
               /\ resp'.msg \in {"Failed to combine chunks: Missing chunks",
                                 "Failed to combine chunks: Error processing chunk"}
               /\ chunk_tracker' = chunk_tracker
               /\ Registered(t)
               /\ Cardinality(chunk_tracker[Key(t)].received_chunks)
                     = chunk_tracker[Key(t)].total_chunks
               /\ UNCHANGED <<extract_dirs, docker_images, image_files, image_chunks>>
               /\ Count(completions, req[t].upload_id) = 0
         /\ ( /\ pc[t] = "check" /\ pc'[t] # "check" /\ req[t].redelivery
              /\ Count(combine_calls, req[t].upload_id) >= 1 ) =>
               /\ Registered(t)
               /\ Cardinality(chunk_tracker[Key(t)].received_chunks)
                     = chunk_tracker[Key(t)].total_chunks
               /\ pc'[t] = "verify"
               /\ Count(combine_calls', req[t].upload_id)
                     = Count(combine_calls, req[t].upload_id) + 1]_vars

\* C28 witness: the assembly of a session failed, an index of the session
\* was delivered again, and that request is inside combine_chunks: the
\* session's second assembly.
C28_Witness ==
    \E t \in Threads :
        /\ pc[t] = "verify" /\ req[t].redelivery /\ Registered(t)
        /\ Count(combine_calls, req[t].upload_id) = 2
        /\ Count(completions, req[t].upload_id) = 0
        /\ Cardinality(chunk_tracker[Key(t)].received_chunks) = req[t].total_chunks

\* C29: a complete request that found its chunk set registered ends with
\* success or with NotFound, never with an unhandled error; it ends with
\* success only if no request before it did for that set, and then the set is
\* no longer registered.
C29_ConcurrentCompleteIsHandled ==
    [][\A t \in Threads :
         (pc[t] \in {"complete", "cmp_remove"} /\ pc'[t] = "idle") =>
            /\ resp'.thread = t
            /\ \/ resp'.status = 200 /\ resp'.msg = "Image download marked complete"
               \/ resp'.status = 404
            /\ resp'.status = 200 =>
                  /\ req[t].upload_id \notin downloads_completed
                  /\ req[t].upload_id \notin DOMAIN image_chunks']_vars

\* The positions of a chunk submission up to its completion check.
InSubmission(p) == p \in {"create", "join", "save", "mark", "check"}

\* C30: a step of a chunk submission that does not go on to assemble leaves
\* the session of every other key, the chunk files of every other upload_id
\* and the registry of chunk sets as they were.
C30_SubmissionTouchesOnlyItsSession ==
    [][\A t \in Threads :
         ( /\ \/ InSubmission(pc[t]) /\ (InSubmission(pc'[t]) \/ pc'[t] = "idle")
              \/ pc[t] = "idle" /\ InSubmission(pc'[t])
           /\ pc'[t] # pc[t] ) =>
            LET locals == IF InSubmission(pc[t]) THEN req[t] ELSE req'[t]
                key == UploadKey(locals.filename, locals.architecture)
                other_keys == (DOMAIN chunk_tracker \cup DOMAIN chunk_tracker') \ {key}
                other_files == {f \in DOMAIN temp_files \cup DOMAIN temp_files' :
                                   f[1] # locals.upload_id}
            IN  /\ other_keys \subseteq DOMAIN chunk_tracker \cap DOMAIN chunk_tracker'
                /\ \A k \in other_keys : chunk_tracker'[k] = chunk_tracker[k]
                /\ other_files \subseteq DOMAIN temp_files \cap DOMAIN temp_files'
                /\ \A f \in other_files : temp_files'[f] = temp_files[f]
                /\ image_chunks' = image_chunks
                /\ image_files' = image_files]_vars

\* C30 witness: a chunk has been accepted into a session that still misses
\* chunks while the session of another key, with its chunk file, is
\* registered.
C30_Witness ==
    /\ resp.msg = "Chunk received successfully"
    /\ Cardinality(DOMAIN chunk_tracker) = 2
    /\ \A k \in DOMAIN chunk_tracker :
          \E i \in chunk_tracker[k].received_chunks :
              <<chunk_tracker[k].upload_id, i>> \in DOMAIN temp_files

====
